---- MODULE Spec2Model ----
(***************************************************************************)
(* Model of atualiza_chromedriver.py: one run of main() resolves the      *)
(* stable ChromeDriver version, compares it with version.txt, downloads   *)
(* the artifact, hashes it, saves the marker, publishes through git and   *)
(* sends a desktop notification.  Runs repeat; the files and the git      *)
(* repository persist between runs.                                        *)
(*                                                                         *)
(* Strings are sequences of character codes; SP is a whitespace character *)
(* and VCHAR the letter 'v' that prefixes a tag name.                      *)
(***************************************************************************)
EXTENDS Integers, Sequences, FiniteSets, TLC

SP == 0
VCHAR == 9

\* Version strings the metadata endpoint may report.  One of them carries a
\* trailing whitespace character, which str.strip() removes on read-back.
Versions == { <<1>>, <<2>>, <<1, SP>> }

\* Outcomes of one subprocess.run(['git', ...]) call.
GitResults == { "ok", "nonzero", "notfound" }

\* Number of runs of main() explored.
MaxRuns == 4

VARIABLES
    pc,              \* position of main()
    outcome,         \* how the last run of main() ended
    cwd,             \* process working directory
    version_txt,     \* the file CHROMEDRIVER_PATH/version.txt
    zip,             \* the file CHROMEDRIVER_PATH/chromedriver-win64.zip
    index,           \* git index, restricted to the two managed files
    head,            \* git HEAD, restricted to the two managed files
    commits,         \* commits on the local branch
    remoteCommits,   \* commits on the remote branch
    tags,            \* local tags
    remoteTags,      \* tags on origin
    versao_recente,  \* local of main()
    versao_salva,    \* local of main()
    tagsListed,      \* stdout of 'git tag' in the current publish call
    trace,           \* external operations issued by the current run
    start,           \* files and publish state when the current run began
    repeat,          \* how the current publish call relates to the previous one
    lastPub,         \* the previous call of git_push_com_tag
    runs             \* runs of main() started so far

vars == << pc, outcome, cwd, version_txt, zip, index, head, commits,
           remoteCommits, tags, remoteTags, versao_recente, versao_salva,
           tagsListed, trace, start, repeat, lastPub, runs >>

----------------------------------------------------------------------------
\* Values

NoFile == [ exists |-> FALSE, text |-> << >> ]
File(s) == [ exists |-> TRUE, text |-> s ]

NoZip == [ exists |-> FALSE, ver |-> << >>, full |-> FALSE ]
FullZip(v) == [ exists |-> TRUE, ver |-> v, full |-> TRUE ]
PartialZip(v) == [ exists |-> TRUE, ver |-> v, full |-> FALSE ]

None == [ some |-> FALSE, val |-> << >> ]
Some(s) == [ some |-> TRUE, val |-> s ]

Snapshot(z, m) == [ zip |-> z, ver |-> m ]
Work == Snapshot(zip, version_txt)
EmptySnapshot == Snapshot(NoZip, NoFile)

\* str.strip(): drop leading and trailing whitespace.
RECURSIVE LStrip(_)
LStrip(s) == IF s # << >> /\ Head(s) = SP THEN LStrip(Tail(s)) ELSE s

RECURSIVE RStrip(_)
RStrip(s) ==
    IF s # << >> /\ s[Len(s)] = SP THEN RStrip(SubSeq(s, 1, Len(s) - 1)) ELSE s

Strip(s) == RStrip(LStrip(s))

ler_versao_salva(f) == IF f.exists THEN Some(Strip(f.text)) ELSE None

\* Variant: the comparison tests object identity (`is`), which never holds
\* for a string read from a file and one parsed from JSON.
UpToDate_identity(salva, recente) == FALSE

\* main: `if versao_salva == versao_recente`
UpToDate(salva, recente) == salva = Some(recente)

\* main: tag = f'v{versao_recente}'
Tag(v) == << VCHAR >> \o v

\* git refuses a ref name that contains whitespace.
ValidRef(t) == \A i \in 1..Len(t) : t[i] # SP

Op(name, r) == [ op |-> name, r |-> r ]

GitCmds == { "status", "add", "commit", "push", "taglist", "tag", "pushtag" }

Issued(name) == \E i \in 1..Len(trace) : trace[i].op = name
Succeeded(name) == \E i \in 1..Len(trace) : trace[i] = Op(name, "ok")
IsGitCmd(e) == e.op \in GitCmds
cmds == SelectSeq(trace, IsGitCmd)

----------------------------------------------------------------------------
\* Exceptions and control flow

\* Variant: subprocess.run without check=True ignores the exit status.
Raises_unchecked(rc) == IF rc = "notfound" THEN "FileNotFoundError" ELSE "none"

\* subprocess.run(..., check=True): the exception a git call raises.
Raises(rc) ==
    CASE rc = "ok" -> "none"
      [] rc = "nonzero" -> "CalledProcessError"
      [] rc = "notfound" -> "FileNotFoundError"

\* Variant: only CalledProcessError is handled.
git_catches_called_only(e) == e = "CalledProcessError"

\* git_push_com_tag: except FileNotFoundError / except CalledProcessError.
git_catches(e) == e \in { "FileNotFoundError", "CalledProcessError" }

\* notificar: except Exception; nothing leaves the function.
notificar_raises(e) == "none"

\* main: the try block starts after os.makedirs; its except clauses end in
\* `except Exception`.
main_catches(step, e) == step # "makedirs"

\* main: the statement that follows `step` in the body of main.
main_next(step) ==
    CASE step = "makedirs" -> "resolve"
      [] step = "resolve" -> "read"
      [] step = "read" -> "compare"
      [] step = "download" -> "hash"
      [] step = "hash" -> "save"
      [] step = "save" -> "git_enter"
      [] step = "publish" -> "notify"
      [] step = "notify" -> "done"

\* Variant: the digest is informational, so its failure is swallowed and
\* the run goes on to save the marker.
main_after_hash_swallowed(step, e) ==
    IF e # "none" /\ step # "hash" THEN "done" ELSE main_next(step)

\* main: where control goes after `step` raised e ("none": it completed).
\* An exception leaves the try block and ends the run.
main_after(step, e) == IF e # "none" THEN "done" ELSE main_next(step)

main_outcome(step, e) ==
    IF e # "none" /\ ~main_catches(step, e) THEN "raised" ELSE "returned"

\* Variant: the directory is restored after the yield without try/finally.
change_dir_exit_no_finally(original_path, current, e) ==
    IF e = "none" THEN original_path ELSE current

\* change_dir: `finally: os.chdir(original_path)`, whatever was raised.
change_dir_exit(original_path, current, e) == original_path

\* Variant: without --porcelain git status always prints text.
StatusDirty_verbose(w, i, h) == TRUE

\* git status --porcelain <files>: non-empty output.
StatusDirty(w, i, h) == w # i \/ i # h

\* Variant: stdout captured as bytes, so a str tag is never found in it.
TagPresent_bytes(t, lines) == FALSE

\* `tag in tags_result.stdout.splitlines()`
TagPresent(t, lines) == t \in lines

\* git_push_com_tag: the command that follows `cmd`; "exit" leaves the
\* with-block.
git_after(cmd, e, dirty, present) ==
    IF e # "none" THEN "exit"
    ELSE CASE cmd = "chdir" -> "git_status"
           [] cmd = "status" -> IF dirty THEN "git_add" ELSE "git_taglist"
           [] cmd = "add" -> "git_commit"
           [] cmd = "commit" -> "git_push"
           [] cmd = "push" -> "git_taglist"
           [] cmd = "taglist" -> IF present THEN "exit" ELSE "git_tag"
           [] cmd = "tag" -> "git_pushtag"
           [] cmd = "pushtag" -> "exit"

\* A write to a managed file that changes its content is an intervening
\* change for the next publish call.
Touch(w) == IF w = Work THEN lastPub ELSE [ lastPub EXCEPT !.intact = FALSE ]

Published(v) ==
    /\ Snapshot(FullZip(v), File(v)) \in remoteCommits
    /\ Tag(v) \in remoteTags

----------------------------------------------------------------------------
\* State after construction: no files, an empty repository, no run yet.

Init ==
    /\ pc = "idle"
    /\ outcome = "none"
    /\ cwd = "orig"
    /\ version_txt = NoFile
    /\ zip = NoZip
    /\ index = EmptySnapshot
    /\ head = EmptySnapshot
    /\ commits = {}
    /\ remoteCommits = {}
    /\ tags = {}
    /\ remoteTags = {}
    /\ versao_recente = << >>
    /\ versao_salva = None
    /\ tagsListed = {}
    /\ trace = << >>
    /\ start = [ marker |-> NoFile, zip |-> NoZip, published |-> FALSE ]
    /\ repeat = "no"
    /\ lastPub = [ called |-> FALSE, tag |-> << >>, ok |-> FALSE,
                   intact |-> FALSE ]
    /\ runs = 0

files == << version_txt, zip >>
repo == << index, head, commits, remoteCommits, tags, remoteTags >>
locals == << versao_recente, versao_salva, tagsListed >>
hist == << start, repeat, runs >>

\* A main-level step `step` ended with exception e.
MainStep(step, r, e) ==
    /\ trace' = Append(trace, Op(step, r))
    /\ pc' = main_after(step, e)
    /\ outcome' = IF main_after(step, e) = "done"
                    THEN main_outcome(step, e) ELSE outcome

Exc(r) == IF r = "ok" THEN "none" ELSE r

\* main, lines 176-181: a new run; CHROMEDRIVER_PATH may be unset.
main_begin ==
    /\ pc \in { "idle", "done" }
    /\ runs < MaxRuns
    /\ runs' = runs + 1
    /\ \E configured \in BOOLEAN :
        /\ pc' = IF configured THEN "makedirs" ELSE "done"
        /\ outcome' = IF configured THEN "none" ELSE "returned"
    /\ trace' = << >>
    /\ versao_recente' = << >>
    /\ versao_salva' = None
    /\ tagsListed' = {}
    /\ repeat' = "no"
    /\ start' = [ marker |-> version_txt, zip |-> zip,
                  published |-> version_txt.exists
                                /\ Published(version_txt.text) ]
    /\ UNCHANGED << cwd, files, repo, lastPub >>

\* main, line 183: os.makedirs, outside the try block.
main_makedirs ==
    /\ pc = "makedirs"
    /\ \E r \in { "ok", "OSError" } : MainStep("makedirs", r, Exc(r))
    /\ UNCHANGED << cwd, files, repo, locals, hist, lastPub >>

\* main, line 189: obter_ultima_versao_e_url.
main_resolve ==
    /\ pc = "resolve"
    /\ \E r \in { "ok", "RequestException", "ValueError", "KeyError" } :
        /\ MainStep("resolve", r, Exc(r))
        /\ IF r = "ok"
             THEN \E v \in Versions : versao_recente' = v
             ELSE versao_recente' = versao_recente
    /\ UNCHANGED << cwd, files, repo, versao_salva, tagsListed, hist, lastPub >>

\* main, line 192: ler_versao_salva.
main_read ==
    /\ pc = "read"
    /\ \E r \in { "ok", "OSError" } :
        /\ MainStep("read", r, Exc(r))
        /\ versao_salva' = IF r = "ok" THEN ler_versao_salva(version_txt)
                                       ELSE versao_salva
    /\ UNCHANGED << cwd, files, repo, versao_recente, tagsListed, hist, lastPub >>

\* main, lines 195-199: the up-to-date short circuit.
main_compare ==
    /\ pc = "compare"
    /\ IF UpToDate(versao_salva, versao_recente)
         THEN pc' = "done" /\ outcome' = "returned"
         ELSE pc' = "download" /\ outcome' = outcome
    /\ UNCHANGED << cwd, files, repo, locals, trace, hist, lastPub >>

\* main, line 200: baixar_arquivo_com_progresso.  A failure before the file
\* is opened leaves it alone; a failure while streaming leaves a partial file.
main_download ==
    /\ pc = "download"
    /\ \E r \in { "ok", "RequestException" } :
        /\ MainStep("download", r, Exc(r))
        /\ \E z \in { zip, PartialZip(versao_recente) } :
            /\ zip' = IF r = "ok" THEN FullZip(versao_recente) ELSE z
            /\ lastPub' = Touch(Snapshot(zip', version_txt))
    /\ UNCHANGED << cwd, version_txt, repo, locals, hist >>

\* main, line 202: calcular_sha256.
main_hash ==
    /\ pc = "hash"
    /\ \E r \in { "ok", "OSError" } : MainStep("hash", r, Exc(r))
    /\ UNCHANGED << cwd, files, repo, locals, hist, lastPub >>

\* main, line 205: salvar_versao.  open(path, 'w') truncates the file before
\* the write, so a failure leaves the old content or an empty file.
main_save ==
    /\ pc = "save"
    /\ \E r \in { "ok", "OSError" } :
        /\ MainStep("save", r, Exc(r))
        /\ \E m \in { version_txt, File(<< >>) } :
            /\ version_txt' = IF r = "ok" THEN File(versao_recente) ELSE m
            /\ lastPub' = Touch(Snapshot(zip, version_txt'))
    /\ UNCHANGED << cwd, zip, repo, locals, hist >>

----------------------------------------------------------------------------
\* git_push_com_tag, lines 138-165

\* What leaves git_push_com_tag when e was raised inside it.
git_propagates(e) == IF git_catches(e) THEN "none" ELSE e

\* One statement of git_push_com_tag ran and raised e ("none": completed).
\* Leaving the with-block runs change_dir's finally clause, then the except
\* clauses; an exception they do not catch reaches main's handlers.
GitStep(cmd, r, e, dirty, present) ==
    /\ trace' = Append(trace, Op(cmd, r))
    /\ IF git_after(cmd, e, dirty, present) = "exit"
         THEN /\ cwd' = change_dir_exit("orig", IF cmd = "chdir" THEN cwd ELSE "repo", e)
              /\ pc' = main_after("publish", git_propagates(e))
              /\ outcome' = IF pc' = "done"
                              THEN main_outcome("publish", git_propagates(e))
                              ELSE outcome
              /\ lastPub' = [ called |-> TRUE, tag |-> Tag(versao_recente),
                              ok |-> e = "none", intact |-> TRUE ]
         ELSE /\ cwd' = "repo"
              /\ pc' = git_after(cmd, e, dirty, present)
              /\ UNCHANGED << outcome, lastPub >>

\* lines 141, 64-69: os.getcwd(); os.chdir(repo_path).
git_enter ==
    /\ pc = "git_enter"
    /\ repeat' = IF lastPub.called /\ lastPub.intact
                    /\ lastPub.tag = Tag(versao_recente)
                   THEN (IF lastPub.ok THEN "sameOk" ELSE "same")
                   ELSE "no"
    /\ \E r \in { "ok", "FileNotFoundError", "OSError" } :
        GitStep("chdir", r, Exc(r), FALSE, FALSE)
    /\ UNCHANGED << files, repo, locals, start, runs >>

\* line 142: git status --porcelain <files>
git_status ==
    /\ pc = "git_status"
    /\ \E rc \in GitResults :
        GitStep("status", rc, Raises(rc), StatusDirty(Work, index, head), FALSE)
    /\ UNCHANGED << files, repo, locals, hist >>

\* line 147: git add <files>
git_add ==
    /\ pc = "git_add"
    /\ \E rc \in GitResults :
        /\ GitStep("add", rc, Raises(rc), FALSE, FALSE)
        /\ index' = IF rc = "ok" THEN Work ELSE index
    /\ UNCHANGED << files, head, commits, remoteCommits, tags, remoteTags,
                    locals, hist >>

\* line 148: git commit -m <message>; git refuses when nothing is staged.
git_commit ==
    /\ pc = "git_commit"
    /\ \E rc \in GitResults :
        /\ rc = "ok" => index # head
        /\ GitStep("commit", rc, Raises(rc), FALSE, FALSE)
        /\ head' = IF rc = "ok" THEN index ELSE head
        /\ commits' = IF rc = "ok" THEN commits \cup { index } ELSE commits
    /\ UNCHANGED << files, index, remoteCommits, tags, remoteTags, locals,
                    hist >>

\* line 149: git push; sends every commit of the branch.
git_push ==
    /\ pc = "git_push"
    /\ \E rc \in GitResults :
        /\ GitStep("push", rc, Raises(rc), FALSE, FALSE)
        /\ remoteCommits' = IF rc = "ok" THEN remoteCommits \cup commits
                                         ELSE remoteCommits
    /\ UNCHANGED << files, index, head, commits, tags, remoteTags, locals,
                    hist >>

\* lines 152-153: git tag
git_taglist ==
    /\ pc = "git_taglist"
    /\ \E rc \in GitResults :
        /\ tagsListed' = IF rc = "ok" THEN tags ELSE tagsListed
        /\ GitStep("taglist", rc, Raises(rc), FALSE,
                   TagPresent(Tag(versao_recente), tagsListed'))
    /\ UNCHANGED << files, repo, versao_recente, versao_salva, hist >>

\* line 157: git tag <tag>; git refuses an existing name, an invalid name or
\* a missing HEAD.
git_tag ==
    /\ pc = "git_tag"
    /\ \E rc \in GitResults :
        /\ rc = "ok" => /\ Tag(versao_recente) \notin tags
                        /\ ValidRef(Tag(versao_recente))
                        /\ commits # {}
        /\ GitStep("tag", rc, Raises(rc), FALSE, FALSE)
        /\ tags' = IF rc = "ok" THEN tags \cup { Tag(versao_recente) } ELSE tags
    /\ UNCHANGED << files, index, head, commits, remoteCommits, remoteTags,
                    locals, hist >>

\* line 158: git push origin <tag>
git_pushtag ==
    /\ pc = "git_pushtag"
    /\ \E rc \in GitResults :
        /\ rc = "ok" => Tag(versao_recente) \in tags
        /\ GitStep("pushtag", rc, Raises(rc), FALSE, FALSE)
        /\ remoteTags' = IF rc = "ok" THEN remoteTags \cup { Tag(versao_recente) }
                                      ELSE remoteTags
    /\ UNCHANGED << files, index, head, commits, remoteCommits, tags, locals,
                    hist >>

\* main, lines 218-219: notificar, then the final log line.
main_notify ==
    /\ pc = "notify"
    /\ \E r \in { "ok", "Exception" } :
        MainStep("notify", r, notificar_raises(Exc(r)))
    /\ UNCHANGED << cwd, files, repo, locals, hist, lastPub >>

Next ==
    \/ main_begin
    \/ main_makedirs
    \/ main_resolve
    \/ main_read
    \/ main_compare
    \/ main_download
    \/ main_hash
    \/ main_save
    \/ git_enter
    \/ git_status
    \/ git_add
    \/ git_commit
    \/ git_push
    \/ git_taglist
    \/ git_tag
    \/ git_pushtag
    \/ main_notify

Spec == Init /\ [][Next]_vars

----------------------------------------------------------------------------
\* The publisher on its own: git_push_com_tag called repeatedly with any
\* version, the managed files rewritten between calls or left alone.

\* A caller invokes git_push_com_tag(repo, [zip, version.txt], v<V>, msg).
pub_call ==
    /\ pc \in { "idle", "notify", "done" }
    /\ runs < MaxRuns
    /\ runs' = runs + 1
    /\ \E v \in Versions : versao_recente' = v
    /\ pc' = "git_enter"
    /\ outcome' = "none"
    /\ trace' = << >>
    /\ tagsListed' = {}
    /\ UNCHANGED << cwd, files, repo, versao_salva, start, repeat, lastPub >>

\* main, lines 200-205: a completed download and marker save for some
\* version rewrite the two managed files.
pub_edit ==
    /\ pc \in { "idle", "notify", "done" }
    /\ \E v \in Versions :
        /\ zip' = FullZip(v)
        /\ version_txt' = File(v)
        /\ lastPub' = Touch(Snapshot(zip', version_txt'))
    /\ UNCHANGED << pc, outcome, cwd, repo, locals, trace, hist >>

NextPub ==
    \/ pub_call
    \/ pub_edit
    \/ git_enter
    \/ git_status
    \/ git_add
    \/ git_commit
    \/ git_push
    \/ git_taglist
    \/ git_tag
    \/ git_pushtag

SpecPub == Init /\ [][NextPub]_vars

TypeOK ==
    /\ pc \in { "idle", "makedirs", "resolve", "read", "compare", "download",
                "hash", "save", "git_enter", "git_status", "git_add",
                "git_commit", "git_push", "git_taglist", "git_tag",
                "git_pushtag", "notify", "done" }
    /\ outcome \in { "none", "returned", "raised" }
    /\ cwd \in { "orig", "repo" }

----------------------------------------------------------------------------
\* Properties

Failed(name) == \E i \in 1..Len(trace) : trace[i].op = name /\ trace[i].r # "ok"
GitFailed == \E i \in 1..Len(cmds) : cmds[i].r # "ok"
PublishOps == GitCmds \cup { "chdir" }
GitCmdPcs == { "git_status", "git_add", "git_commit", "git_push",
               "git_taglist", "git_tag", "git_pushtag" }

Rank(c) ==
    CASE c = "status" -> 1
      [] c = "add" -> 2
      [] c = "commit" -> 3
      [] c = "push" -> 4
      [] c = "taglist" -> 5
      [] c = "tag" -> 6
      [] c = "pushtag" -> 7

\* C1: when the resolved version equals the value read from version.txt the
\* run ends by returning, and it has issued no download, no write of either
\* managed file, no publish operation and no notification.
C1_UpToDateNoSideEffects ==
    (Succeeded("resolve") /\ Succeeded("read")
       /\ versao_salva = Some(versao_recente))
    => /\ \A i \in 1..Len(trace) : trace[i].op \in { "makedirs", "resolve", "read" }
       /\ version_txt = start.marker
       /\ zip = start.zip
       /\ pc \in { "compare", "done" }
       /\ pc = "done" => outcome = "returned"

C1_Witness ==
    /\ pc = "done"
    /\ Succeeded("read")
    /\ versao_salva = Some(versao_recente)
    /\ version_txt.exists

\* C2: at the end of every run, a version held by version.txt has its commit
\* and its tag on the remote.
C2_MarkerImpliesPublished ==
    (pc = "done" /\ version_txt.exists /\ version_txt.text \in Versions)
    => Published(version_txt.text)

\* C3: a run that starts with marker and artifact of V ahead of the remote,
\* resolves V again and meets no failure leaves V's commit and tag on the
\* remote.
C3_NextRunReconciles ==
    (/\ pc = "done"
     /\ outcome = "returned"
     /\ start.marker.exists
     /\ start.marker.text \in Versions
     /\ start.zip = FullZip(start.marker.text)
     /\ ~start.published
     /\ Succeeded("resolve")
     /\ versao_recente = start.marker.text
     /\ \A i \in 1..Len(trace) : trace[i].r = "ok")
    => Published(versao_recente)

\* C4: after a git command of the publish step failed (non-zero status or
\* missing executable) the run goes on to the notification, and a run that
\* issued the notification ends by returning whether or not it was delivered.
C4_PublishFailureStillNotifies ==
    /\ GitFailed => \/ pc = "notify"
                    \/ pc = "done" /\ Issued("notify") /\ outcome = "returned"
    /\ Issued("notify") => pc = "done" /\ outcome = "returned"

C4_Witness ==
    /\ pc = "done"
    /\ GitFailed
    /\ Failed("notify")
    /\ outcome = "returned"

\* C5: download, hash and save run in that order, each only after the
\* previous one completed; a failed download or hash leaves version.txt as it
\* was at the start of the run, and a failure of any of the three ends the
\* run with no publish operation and no notification.
C5_SequentialAbort ==
    /\ Issued("hash") => Succeeded("download")
    /\ Issued("save") => Succeeded("hash")
    /\ version_txt # start.marker => Succeeded("download") /\ Succeeded("hash")
    /\ (Failed("download") \/ Failed("hash")) => version_txt = start.marker
    /\ (Failed("download") \/ Failed("hash") \/ Failed("save"))
       => /\ pc = "done"
          /\ \A i \in 1..Len(trace) :
                trace[i].op \notin PublishOps \cup { "notify" }

C5_Witness ==
    /\ pc = "done"
    /\ Failed("hash")
    /\ zip = FullZip(versao_recente)
    /\ zip # start.zip
    /\ version_txt = start.marker

C7_OrderedFailFast ==
    /\ \A i \in 1..Len(cmds) : \A j \in 1..Len(cmds) :
          i < j => Rank(cmds[i].op) < Rank(cmds[j].op) /\ cmds[i].r = "ok"
    /\ cmds # << >> => cmds[1].op = "status"
    /\ Issued("commit") => Succeeded("add")
    /\ Issued("push") => Succeeded("commit")
    /\ (Issued("taglist") /\ Issued("add")) => Succeeded("push")
    /\ Issued("pushtag") => Succeeded("tag")

C7_Witness ==
    /\ pc = "notify"
    /\ cmds = << Op("status", "ok"), Op("add", "ok"), Op("commit", "nonzero") >>

\* C8: tag creation and tag push are issued only after a tag listing that
\* does not contain the tag, and never for a tag that already exists.
C8_TagCreatedOnlyWhenAbsent ==
    /\ (pc = "git_tag" \/ Issued("tag") \/ Issued("pushtag"))
       => /\ Succeeded("taglist")
          /\ Tag(versao_recente) \notin tagsListed
    /\ pc = "git_tag" => Tag(versao_recente) \notin tags

C8_Witness ==
    /\ pc = "notify"
    /\ Succeeded("taglist")
    /\ Tag(versao_recente) \in tagsListed
    /\ ~Issued("tag")
    /\ ~Issued("pushtag")

\* C9: the working directory is the repository exactly while the git commands
\* of the publish step run, and the original directory at every other point,
\* whichever way the publish step was left.
C9_WorkingDirRestored ==
    /\ pc \in GitCmdPcs => cwd = "repo"
    /\ pc \notin GitCmdPcs => cwd = "orig"

C9_Witness ==
    /\ pc = "notify"
    /\ GitFailed
    /\ cwd = "orig"

\* C10: every run of main() ends by returning normally.
C10_AlwaysReturnsNormally ==
    pc = "done" => outcome = "returned"

====
